---- MODULE Spec2Model ----
(***************************************************************************)
(* Model of dex2nc.py: the conversion of a gridded sea ice ASCII file      *)
(* (.dex) into a gridded dataset (dex2ds) and the command line driver that *)
(* writes one netcdf file per input file.                                  *)
(*                                                                         *)
(* Text is a sequence of one-character strings.  A cell of the data frame  *)
(* is a record: NaN, a string (Str) or a number (Num).  A number is a      *)
(* decimal m * 10^-e with no trailing zero in its fraction, so that equal  *)
(* numbers are equal records.                                              *)
(***************************************************************************)
EXTENDS Integers, Sequences, FiniteSets, TLC

VARIABLES file_, table, result, argv, outarg, disk, i, pc, reads, written, fs

vars == <<file_, table, result, argv, outarg, disk, i, pc, reads, written, fs>>

(***************************************************************************)
(* Bounds of the model                                                     *)
(***************************************************************************)
MaxLen == 3
MaxRows == 3
MaxNameLen == 9
MaxFiles == 2

(***************************************************************************)
(* Values                                                                  *)
(***************************************************************************)
NaN == [kind |-> "nan"]

None == [kind |-> "none"]

Str(s) == [kind |-> "str", s |-> s]

Num(m, e) == [kind |-> "num", m |-> m, e |-> e]

isinstance_str(x) == x.kind = "str"

isnull(x) == x.kind = "nan"

DigitChars == <<"0", "1", "2", "3", "4", "5", "6", "7", "8", "9">>

IsDigit(c) == \E k \in 1..10 : DigitChars[k] = c

DigitVal(c) == (CHOOSE k \in 1..10 : DigitChars[k] = c) - 1

RECURSIVE DigitsToInt(_)
DigitsToInt(s) ==
    IF s = <<>> THEN 0
    ELSE 10 * DigitsToInt(SubSeq(s, 1, Len(s) - 1)) + DigitVal(s[Len(s)])

RECURSIVE Normalize(_, _)
Normalize(m, e) ==
    IF e > 0 /\ m % 10 = 0 THEN Normalize(m \div 10, e - 1) ELSE Num(m, e)

(***************************************************************************)
(* Reading text as a floating point number, as the csv reader does for a   *)
(* float column and as pd.to_numeric does for a string: an optional sign,  *)
(* digits with at most one decimal point, at least one digit.  The result  *)
(* is NaN when the text is not a number.  (Exponents and the spellings of  *)
(* infinity need letters that no text of the model holds.)                 *)
(***************************************************************************)
ParseFloat(s) ==
    LET signed == Len(s) > 0 /\ s[1] \in {"+", "-"}
        body   == IF signed THEN Tail(s) ELSE s
        dots   == {k \in 1..Len(body) : body[k] = "."}
        digits == SelectSeq(body, IsDigit)
        wellformed == /\ \A k \in 1..Len(body) : IsDigit(body[k]) \/ body[k] = "."
                      /\ Cardinality(dots) <= 1
                      /\ Len(digits) >= 1
        frac   == IF dots = {} THEN 0 ELSE Len(body) - (CHOOSE k \in dots : TRUE)
        mag    == DigitsToInt(digits)
    IN  IF ~wellformed THEN NaN
        ELSE Normalize(IF signed /\ s[1] = "-" THEN 0 - mag ELSE mag, frac)

(***************************************************************************)
(* str.replace(old, new): every occurrence of old, left to right, without  *)
(* overlap.                                                                *)
(***************************************************************************)
StartsWith(s, p) == Len(s) >= Len(p) /\ SubSeq(s, 1, Len(p)) = p

RECURSIVE Replace(_, _, _)
Replace(s, old, new) ==
    IF s = <<>> THEN <<>>
    ELSE IF StartsWith(s, old)
         THEN new \o Replace(SubSeq(s, Len(old) + 1, Len(s)), old, new)
         ELSE <<s[1]>> \o Replace(Tail(s), old, new)

(***************************************************************************)
(* Helper functions of dex2ds                                              *)
(***************************************************************************)
(* the + character alone substituted by .9                                *)
_strip_plus_char(x) ==
    IF isinstance_str(x) THEN Str(Replace(x.s, <<"+">>, <<".", "9">>)) ELSE x

(* the result of replace dropped: strings are immutable                   *)
_strip_plus_unassigned(x) == x

_strip_plus(x) ==
    IF isinstance_str(x) THEN Str(Replace(x.s, <<"9", "+">>, <<"9", ".", "9">>)) ELSE x

_strip_dots(x) ==
    IF isinstance_str(x) THEN Str(Replace(x.s, <<".">>, <<"0">>)) ELSE x

KeyError == -1

conv ==
    <<  <<  <<"I", "F">>, 1 >>,
        <<  <<"m", "i", "s", "s", "i", "n", "g">>, 2 >>,
        <<  <<"F", "a", "s", "t", "-", "i", "c", "e">>, 3 >>,
        <<  <<"1">>, 0 >>,
        <<  <<"2">>, 0 >>,
        <<  <<"3">>, 0 >>,
        <<  <<"4">>, 0 >>,
        <<  <<"5">>, 0 >>,
        <<  <<"6">>, 0 >>,
        <<  <<"7">>, 0 >>,
        <<  <<"8">>, 0 >>,
        <<  <<"9">>, 0 >>,
        <<  <<"9", "+">>, 0 >>,
        <<  <<"9", ".", "9">>, 0 >>,
        <<  <<"1", "0">>, 0 >>  >>

(* conv.get(x, 2): an unknown code degrades to the missing flag           *)
_num_flags_default(x) ==
    IF isinstance_str(x) /\ \E k \in 1..Len(conv) : conv[k][1] = x.s
    THEN conv[CHOOSE k \in 1..Len(conv) : conv[k][1] = x.s][2]
    ELSE 2

_num_flags(x) ==
    IF isinstance_str(x) /\ \E k \in 1..Len(conv) : conv[k][1] = x.s
    THEN conv[CHOOSE k \in 1..Len(conv) : conv[k][1] = x.s][2]
    ELSE KeyError

(***************************************************************************)
(* Read dex: column format                                                 *)
(***************************************************************************)
col_names == <<"lon", "lat", "CT", "CA", "SA", "FA", "CB", "SB", "FB", "CC", "SC", "FC">>

col_types == <<"float", "float", "str", "str", "str", "str", "str", "str", "str",
               "float", "float", "float">>

ColSet == {col_names[k] : k \in 1..Len(col_names)}

Col(n) == CHOOSE k \in 1..Len(col_names) : col_names[k] = n

types == [n \in ColSet |-> col_types[Col(n)]]

DataCols == {col_names[k] : k \in 3..Len(col_names)}

(* The reader's own null spellings (NA, NaN, null, ...) need letters that  *)
(* no cell of the model holds.                                             *)
na_values == {<<"X">>}

(***************************************************************************)
(* Read dex: into dataframe.  A row of the file is the sequence of its     *)
(* twelve whitespace separated texts.  A cell equal to a null sentinel     *)
(* reads as NaN; a cell of a str column is kept as text; a cell of a float *)
(* column is read as a number, and the reader raises ValueError when it is *)
(* not one.                                                                *)
(***************************************************************************)
ReadCell(n, text) ==
    IF text \in na_values THEN NaN
    ELSE IF types[n] = "str" THEN Str(text)
    ELSE ParseFloat(text)

read_csv_raises(rows) ==
    \E r \in 1..Len(rows) : \E n \in ColSet :
        /\ types[n] = "float"
        /\ rows[r][Col(n)] \notin na_values
        /\ ParseFloat(rows[r][Col(n)]) = NaN

read_csv(rows) ==
    [r \in 1..Len(rows) |-> [n \in ColSet |-> ReadCell(n, rows[r][Col(n)])]]

(***************************************************************************)
(* pd.to_numeric(errors='coerce') on one cell                              *)
(***************************************************************************)
to_numeric(x) == IF isinstance_str(x) THEN ParseFloat(x.s) ELSE x

PlusCols == {"CT", "CA"}

DotCols == {"SA", "SB", "SC"}

(***************************************************************************)
(* Lines 138-151 on one row of the data frame: the two substitutions, the  *)
(* flag looked up from the substituted CT, then the numeric conversion of  *)
(* every data column.                                                      *)
(***************************************************************************)
Substituted(row) ==
    [n \in ColSet |-> IF n \in PlusCols THEN _strip_plus(row[n])
                      ELSE IF n \in DotCols THEN _strip_dots(row[n])
                      ELSE row[n]]

FlagOf(row) == _num_flags(Substituted(row)["CT"])

Converted(row) ==
    [n \in ColSet \cup {"flag"} |->
        IF n = "flag" THEN Num(FlagOf(row), 0)
        ELSE IF n \in DataCols THEN to_numeric(Substituted(row)[n])
        ELSE row[n]]

convert(df) == [r \in 1..Len(df) |-> Converted(df[r])]

(***************************************************************************)
(* df.to_xarray(): the rows, indexed by (lon, lat), spread over the grid   *)
(* of the lon values by the lat values; a grid cell no row holds is NaN in *)
(* every variable.  A repeated index raises ValueError.                    *)
(***************************************************************************)
Index(df, r) == <<df[r]["lon"], df[r]["lat"]>>

index_is_unique(df) ==
    \A r, q \in 1..Len(df) : Index(df, r) = Index(df, q) => r = q

DataVars == DataCols \cup {"flag"}

to_xarray(df) ==
    LET lons == {df[r]["lon"] : r \in 1..Len(df)}
        lats == {df[r]["lat"] : r \in 1..Len(df)}
    IN  [lon  |-> lons,
         lat  |-> lats,
         time |-> <<>>,
         data |-> [p \in lons \X lats |->
                      IF \E r \in 1..Len(df) : Index(df, r) = p
                      THEN LET r == CHOOSE q \in 1..Len(df) : Index(df, q) = p
                           IN  [v \in DataVars |-> df[r][v]]
                      ELSE [v \in DataVars |-> NaN]]]

(***************************************************************************)
(* Add land flags: dataset.flag.where(~dataset.flag.isnull(), 4)           *)
(***************************************************************************)
LandFlag == 4

(* where() with the condition inverted                                    *)
add_land_flags_inverted(ds) ==
    [ds EXCEPT !.data = [p \in DOMAIN ds.data |->
        [ds.data[p] EXCEPT !["flag"] = IF isnull(@) THEN @ ELSE Num(LandFlag, 0)]]]

add_land_flags(ds) ==
    [ds EXCEPT !.data = [p \in DOMAIN ds.data |->
        [ds.data[p] EXCEPT !["flag"] = IF isnull(@) THEN Num(LandFlag, 0) ELSE @]]]

(***************************************************************************)
(* Add time coordinate: the first match of [0-9]{8} in the file name, read *)
(* as YYYY-MM-DD by pd.Timestamp.                                          *)
(***************************************************************************)
DateLen == 8

AllDigits(s) == \A k \in 1..Len(s) : IsDigit(s[k])

RECURSIVE findall(_)
findall(s) ==
    IF Len(s) < DateLen THEN <<>>
    ELSE IF AllDigits(SubSeq(s, 1, DateLen))
         THEN <<SubSeq(s, 1, DateLen)>> \o findall(SubSeq(s, DateLen + 1, Len(s)))
         ELSE findall(Tail(s))

IsLeap(y) == (y % 4 = 0 /\ y % 100 # 0) \/ y % 400 = 0

DaysInMonth(y, m) ==
    IF m = 2 THEN (IF IsLeap(y) THEN 29 ELSE 28)
    ELSE IF m \in {4, 6, 9, 11} THEN 30 ELSE 31

IsDate(y, m, d) ==
    /\ y >= 1
    /\ m \in 1..12
    /\ d >= 1
    /\ d <= DaysInMonth(y, m)

(* Years every nanosecond-resolution timestamp can hold; outside of them   *)
(* the outcome (a date or OutOfBoundsDatetime) depends on the library      *)
(* version, so both are possible.                                          *)
NsYears == 1678..2261

Date(y, m, d) == [year |-> y, month |-> m, day |-> d]

(* the month and day slices exchanged                                     *)
DateOf_swapped(date_str) ==
    Date(DigitsToInt(SubSeq(date_str, 1, 4)),
         DigitsToInt(SubSeq(date_str, 7, 8)),
         DigitsToInt(SubSeq(date_str, 5, 6)))

DateOf(date_str) ==
    Date(DigitsToInt(SubSeq(date_str, 1, 4)),
         DigitsToInt(SubSeq(date_str, 5, 6)),
         DigitsToInt(SubSeq(date_str, 7, 8)))

NoDate == Date(0, 0, 0)

Timestamp(date_str) ==
    LET t == DateOf(date_str)
    IN  IF ~IsDate(t.year, t.month, t.day) THEN {NoDate}
        ELSE IF t.year \in NsYears THEN {t}
        ELSE {t, NoDate}

expand_dims(ds, date) == [ds EXCEPT !.time = <<date>>]

(***************************************************************************)
(* dex2ds(file_): the set of outcomes of reading the file named file_ that *)
(* holds the rows `rows`.  An outcome is a returned dataset or the         *)
(* exception that ends the call, with the step that raised it.  (The       *)
(* descriptive attributes attached after line 164 are left out: they       *)
(* change no value of the dataset.)                                        *)
(***************************************************************************)
Raised(exc, at) == [status |-> "raised", exc |-> exc, at |-> at]

Returned(ds) == [status |-> "ok", dataset |-> ds]

Pending == [status |-> "pending"]

dex2ds(f, rows) ==
    IF read_csv_raises(rows) THEN {Raised("ValueError", "read_csv")}
    ELSE LET df == read_csv(rows) IN
    IF \E r \in 1..Len(df) : FlagOf(df[r]) = KeyError
    THEN {Raised("KeyError", "_num_flags")}
    ELSE IF ~index_is_unique(df) THEN {Raised("ValueError", "to_xarray")}
    ELSE IF findall(f) = <<>> THEN {Raised("IndexError", "findall")}
    ELSE {IF t = NoDate THEN Raised("ValueError", "Timestamp")
          ELSE Returned(expand_dims(add_land_flags(to_xarray(convert(df))), t))
            : t \in Timestamp(findall(f)[1])}

(***************************************************************************)
(* Inputs                                                                  *)
(***************************************************************************)
Texts(alphabet, n) == UNION {[1..k -> alphabet] : k \in 1..n}

X == <<"X">>

IF_ == <<"I", "F">>

missing == <<"m", "i", "s", "s", "i", "n", "g">>

Fast_ice == <<"F", "a", "s", "t", "-", "i", "c", "e">>

Row(lon, lat, ct, n, text) ==
    [k \in 1..Len(col_names) |->
        IF col_names[k] = n THEN text
        ELSE IF k = 1 THEN lon
        ELSE IF k = 2 THEN lat
        ELSE IF k = 3 THEN ct
        ELSE X]

GoodName == <<"2", "0", "2", "0", "0", "3", "1", "5">>

Idle ==
    /\ argv = <<>>
    /\ outarg = None
    /\ disk = <<>>
    /\ i = 0
    /\ pc = "import"
    /\ written = <<>>
    /\ fs = {}

(* Grids: files of up to MaxRows rows, each row at one of four points     *)
(* (three of them on one meridian) and of one of the coded kinds: ice with *)
(* a 9+ concentration, ice with dotted stage codes, ice free, missing,     *)
(* fast ice, and a null CT.                                                *)
Points == { <<<<"1">>, <<"1">>>>, <<<<"1">>, <<"2">>>>, <<<<"1">>, <<"3">>>>,
            <<<<"2">>, <<"1">>>> }

StageRow(lon, lat) ==
    [k \in 1..Len(col_names) |->
        IF k = 1 THEN lon
        ELSE IF k = 2 THEN lat
        ELSE IF k = 3 THEN <<"1">>
        ELSE IF col_names[k] \in {"SA", "SB", "SC"} THEN <<"4", ".">>
        ELSE X]

GridRows ==
    {Row(p[1], p[2], <<"9", "+">>, "CA", <<"9", "+">>) : p \in Points}
    \cup {StageRow(p[1], p[2]) : p \in Points}
    \cup {Row(p[1], p[2], ct, "CA", X) : p \in Points, ct \in {IF_, missing, Fast_ice, X}}

Init ==
    /\ file_ = GoodName
    /\ table \in UNION {[1..k -> GridRows] : k \in 1..MaxRows}
    /\ result = Pending
    /\ reads = <<>>
    /\ Idle

(* Cells: files of one row in which one data cell holds any text of up to  *)
(* MaxLen characters, or one of the codes.                                 *)
CellAlphabet == {"1", "9", "+", "."}

Codes == {conv[k][1] : k \in 1..Len(conv)}

CellTexts == Texts(CellAlphabet, MaxLen) \cup Codes \cup {X, <<"4", ".">>, <<"Q">>}

InitCell ==
    /\ file_ = GoodName
    /\ \E n \in DataCols : \E text \in CellTexts :
          table = <<Row(<<"1">>, <<"1">>, IF_, n, text)>>
    /\ result = Pending
    /\ reads = <<>>
    /\ Idle

(* Names: every file name of up to MaxNameLen characters, for a file of    *)
(* one well formed row.                                                    *)
NameAlphabet == {"0", "1", "2", "_"}

InitName ==
    /\ \E k \in 1..MaxNameLen : file_ \in [1..k -> NameAlphabet]
    /\ table = <<Row(<<"1">>, <<"1">>, <<"1">>, "CA", X)>>
    /\ result = Pending
    /\ reads = <<>>
    /\ Idle

(***************************************************************************)
(* A call of dex2ds from a third party script                              *)
(***************************************************************************)
Call ==
    /\ pc = "import"
    /\ result = Pending
    /\ \E r \in dex2ds(file_, table) : result' = r
    /\ reads' = Append(reads, file_)
    /\ UNCHANGED <<file_, table, argv, outarg, disk, i, pc, written, fs>>

Next == Call

Spec == Init /\ [][Next]_vars

SpecCell == InitCell /\ [][Next]_vars

SpecName == InitName /\ [][Next]_vars

(***************************************************************************)
(* CLI                                                                     *)
(***************************************************************************)
rfind(s, c) ==
    IF \E k \in 1..Len(s) : s[k] = c
    THEN CHOOSE k \in 1..Len(s) : s[k] = c /\ \A j \in (k + 1)..Len(s) : s[j] # c
    ELSE 0

(* os.path.basename: what follows the last separator                       *)
basename(path) == SubSeq(path, rfind(path, "/") + 1, Len(path))

(* os.path.splitext: the extension runs from the last dot of the last path *)
(* component, unless only dots come before it in that component            *)
splitext(path) ==
    LET sepIndex == rfind(path, "/")
        dotIndex == rfind(path, ".")
    IN  IF /\ dotIndex > sepIndex
           /\ \E k \in (sepIndex + 1)..(dotIndex - 1) : path[k] # "."
        THEN <<SubSeq(path, 1, dotIndex - 1), SubSeq(path, dotIndex, Len(path))>>
        ELSE <<path, <<>> >>

nc == <<".", "n", "c">>

(* the extension split from the whole path, directories kept             *)
OutName_fullpath(filename) ==
    IF outarg = None \/ Len(argv) > 1
    THEN splitext(filename)[1] \o nc
    ELSE outarg.s

(* By default the input file name names the output file; otherwise the    *)
(* user specified name does.                                               *)
OutName(filename) ==
    IF outarg = None \/ Len(argv) > 1
    THEN splitext(basename(filename))[1] \o nc
    ELSE outarg.s

(* ds.to_netcdf(outname): the file of that name now holds the dataset      *)
to_netcdf(files, outname, ds) ==
    {f \in files : f.name # outname} \cup {[name |-> outname, dataset |-> ds]}

(* the exception caught and the loop continued with the next file        *)
MainIteration_continue ==
    /\ pc = "main"
    /\ i < Len(argv)
    /\ LET filename == argv[i + 1]
           outname  == OutName(filename)
       IN  \E r \in dex2ds(filename, disk[filename]) :
             /\ file_' = filename
             /\ table' = disk[filename]
             /\ result' = r
             /\ reads' = Append(reads, filename)
             /\ i' = i + 1
             /\ pc' = IF i + 1 = Len(argv) THEN "done" ELSE "main"
             /\ IF r.status = "ok"
                THEN /\ written' = Append(written, [name |-> outname, source |-> filename])
                     /\ fs' = to_netcdf(fs, outname, r.dataset)
                ELSE UNCHANGED <<written, fs>>
    /\ UNCHANGED <<argv, outarg, disk>>

(* One pass of the loop over args.filename.  An exception dex2ds raises is *)
(* caught nowhere: it ends the process before anything is saved.           *)
MainIteration ==
    /\ pc = "main"
    /\ i < Len(argv)
    /\ LET filename == argv[i + 1]
           outname  == OutName(filename)
       IN  \E r \in dex2ds(filename, disk[filename]) :
             /\ file_' = filename
             /\ table' = disk[filename]
             /\ result' = r
             /\ reads' = Append(reads, filename)
             /\ IF r.status = "ok"
                THEN /\ written' = Append(written, [name |-> outname, source |-> filename])
                     /\ fs' = to_netcdf(fs, outname, r.dataset)
                     /\ i' = i + 1
                     /\ pc' = IF i + 1 = Len(argv) THEN "done" ELSE "main"
                ELSE /\ pc' = "failed"
                     /\ UNCHANGED <<written, fs, i>>
    /\ UNCHANGED <<argv, outarg, disk>>

DexExt == <<".", "d", "e", "x">>

CLINames ==
    { <<"a", "/">> \o GoodName \o DexExt,
      <<"b", "/">> \o GoodName \o DexExt,
      <<"b", ".", "c", "/">> \o GoodName,
      <<".">> \o GoodName,
      GoodName \o <<".", "t">> \o DexExt,
      <<"x">> \o DexExt }

CLITables ==
    { <<Row(<<"1">>, <<"1">>, <<"1">>, "CA", X)>>,
      <<Row(<<"1">>, <<"1">>, <<"Q">>, "CA", X)>> }

CLIOutNames == {None, Str(<<"o">>), Str(<<"o", ".", "n", "c">>)}

InitCLI ==
    /\ argv \in UNION {[1..k -> CLINames] : k \in 1..MaxFiles}
    /\ outarg \in CLIOutNames
    /\ disk \in [CLINames -> CLITables]
    /\ i = 0
    /\ pc = "main"
    /\ file_ = <<>>
    /\ table = <<>>
    /\ result = Pending
    /\ reads = <<>>
    /\ written = <<>>
    /\ fs = {}

NextCLI == MainIteration

SpecCLI == InitCLI /\ [][NextCLI]_vars

(***************************************************************************)
(* Properties                                                              *)
(***************************************************************************)
Done == result.status # "pending"

Ok == result.status = "ok"

One == Num(1, 0)

(* The texts the lookup knows, with the flag of each                       *)
IceCodes ==
    { <<"1">>, <<"2">>, <<"3">>, <<"4">>, <<"5">>, <<"6">>, <<"7">>, <<"8">>, <<"9">>,
      <<"9", "+">>, <<"9", ".", "9">>, <<"1", "0">> }

LookupSet == IceCodes \cup {IF_, missing, Fast_ice}

ExpectedFlag(ct) ==
    IF ct = IF_ THEN 1
    ELSE IF ct = missing THEN 2
    ELSE IF ct = Fast_ice THEN 3
    ELSE 0

OthersNull(row, n) == \A k \in 3..Len(row) : col_names[k] # n => row[k] = X

(* C1: the lookup gives 1 for IF, 2 for missing, 3 for Fast-ice and 0 for  *)
(* the ice codes 1..9, 9+, 9.9 and 10; a file whose CT cell is any other   *)
(* text, or null, makes dex2ds raise the lookup's KeyError and return no   *)
(* dataset; a file whose CT cell is one of the codes (its other cells      *)
(* null) gives a dataset whose flag is the code's flag.                    *)
C1_Lookup ==
    /\ \A ct \in LookupSet : _num_flags(Str(ct)) = ExpectedFlag(ct)
    /\ (Done /\ Len(table) = 1) =>
         LET ct == table[1][Col("CT")]
         IN  /\ ct \notin LookupSet =>
                  /\ result.status = "raised"
                  /\ result.at # "read_csv" => result = Raised("KeyError", "_num_flags")
             /\ Ok => /\ ct \in LookupSet
                      /\ result.dataset.data[<<One, One>>]["flag"] = Num(ExpectedFlag(ct), 0)
             /\ (ct \in LookupSet /\ OthersNull(table[1], "CT")) => Ok

C1_Witness ==
    /\ table[1][Col("CT")] = X
    /\ result = Raised("KeyError", "_num_flags")

RowAt(p) == {r \in 1..Len(table) : <<ParseFloat(table[r][1]), ParseFloat(table[r][2])>> = p}

(* C2: in a returned dataset the grid is the lon values by the lat values  *)
(* of the rows; a cell no row holds has flag 4 and a cell a row holds has  *)
(* the flag of that row's CT code.                                         *)
C2_LandFlag ==
    Ok => LET ds == result.dataset
          IN  /\ DOMAIN ds.data = ds.lon \X ds.lat
              /\ \A r \in 1..Len(table) : RowAt(<<ParseFloat(table[r][1]),
                                                  ParseFloat(table[r][2])>>) = {r}
              /\ \A p \in DOMAIN ds.data :
                    /\ RowAt(p) = {} => ds.data[p]["flag"] = Num(4, 0)
                    /\ \A r \in RowAt(p) :
                           ds.data[p]["flag"] = Num(ExpectedFlag(table[r][Col("CT")]), 0)

C2_Witness ==
    /\ Ok
    /\ \E p, q \in DOMAIN result.dataset.data :
          /\ RowAt(p) = {}
          /\ result.dataset.data[p]["flag"] = Num(4, 0)
          /\ RowAt(q) # {}
          /\ result.dataset.data[q]["flag"] = Num(3, 0)

(* C10: in a returned dataset a cell's CT is a number exactly when its     *)
(* flag is 0; cells flagged 1, 2, 3 or 4 have CT missing.                  *)
C10_FlagZeroIffCT ==
    Ok => \A p \in DOMAIN result.dataset.data :
             LET c == result.dataset.data[p]
             IN  /\ c["flag"] \in {Num(f, 0) : f \in 0..4}
                 /\ c["flag"] = Num(0, 0) <=> c["CT"].kind = "num"
                 /\ c["flag"] # Num(0, 0) <=> c["CT"] = NaN

C10_Witness ==
    /\ Ok
    /\ \E p, q, u \in DOMAIN result.dataset.data :
          /\ result.dataset.data[p]["flag"] = Num(0, 0)
          /\ result.dataset.data[p]["CT"] = Num(99, 1)
          /\ result.dataset.data[q]["flag"] = Num(2, 0)
          /\ result.dataset.data[u]["flag"] = Num(4, 0)

IsDotted(t) == Len(t) = 2 /\ IsDigit(t[1]) /\ t[2] = "."

Point(r) == <<ParseFloat(table[r][1]), ParseFloat(table[r][2])>>

(* C9: a file of 3 rows at distinct points, the first with CT 9+, the      *)
(* second with a stage code of a digit and a dot, the third with CT        *)
(* missing, gives a dataset of exactly 3 grid points that holds 9.9 for    *)
(* the 9+ cell, the digit times 10 for the stage code, and the flags 0, 0  *)
(* and 2 for the three rows.                                               *)
C9_EndToEnd ==
    ( /\ Done
      /\ Len(table) = 3
      /\ table[1][Col("CT")] = <<"9", "+">>
      /\ \E n \in DotCols : IsDotted(table[2][Col(n)])
      /\ table[3][Col("CT")] = missing
      /\ Cardinality({Point(1), Point(2), Point(3)}) = 3 )
    => /\ Ok
       /\ Cardinality(DOMAIN result.dataset.data) = 3
       /\ result.dataset.data[Point(1)]["CT"] = Num(99, 1)
       /\ \A n \in DotCols : IsDotted(table[2][Col(n)]) =>
             result.dataset.data[Point(2)][n] = Num(10 * DigitVal(table[2][Col(n)][1]), 0)
       /\ result.dataset.data[Point(1)]["flag"] = Num(0, 0)
       /\ result.dataset.data[Point(2)]["flag"] = Num(0, 0)
       /\ result.dataset.data[Point(3)]["flag"] = Num(2, 0)

(* The one grid cell of a file of one row at (1, 1)                        *)
Cell1 == result.dataset.data[<<One, One>>]

Contains(t, p) == \E k \in 1..(Len(t) - Len(p) + 1) : SubSeq(t, k, k + Len(p) - 1) = p

NinePlus == <<"9", "+">>

(* t with "9.9" in the place of each "9+", position by position            *)
PlusAt(t) == {k \in 1..(Len(t) - 1) : t[k] = "9" /\ t[k + 1] = "+"}

RECURSIVE PlusPieces(_, _)
PlusPieces(t, k) ==
    IF k > Len(t) THEN <<>>
    ELSE (IF k \in PlusAt(t) THEN <<"9", ".", "9">>
          ELSE IF (k - 1) \in PlusAt(t) THEN <<>>
          ELSE <<t[k]>>) \o PlusPieces(t, k + 1)

(* C3 as stated: a CT or CA value that contains "9+" is mapped to 9.9 by   *)
(* the plus substitution (and is 9.9 in a returned dataset), and a value   *)
(* that does not contain "9+" passes through unchanged.                    *)
C3_Original ==
    Done => \A n \in PlusCols :
        LET t == table[1][Col(n)]
        IN  t # X =>
              /\ Contains(t, NinePlus) =>
                    /\ _strip_plus(Str(t)) = Str(<<"9", ".", "9">>)
                    /\ Ok => Cell1[n] = Num(99, 1)
              /\ ~Contains(t, NinePlus) => _strip_plus(Str(t)) = Str(t)

(* C3 amended: the plus substitution puts "9.9" in the place of each       *)
(* occurrence of "9+" in a CT or CA value, so that a value equal to "9+"   *)
(* becomes 9.9 in the returned dataset; a value that does not contain      *)
(* "9+", a null cell included, passes through unchanged and the dataset    *)
(* holds the number it reads as.                                           *)
C3_PlusSubstitution ==
    Done => \A n \in PlusCols :
        LET t == table[1][Col(n)]
        IN  /\ t = X => /\ _strip_plus(ReadCell(n, t)) = NaN
                        /\ Ok => Cell1[n] = NaN
            /\ t # X =>
                 /\ _strip_plus(ReadCell(n, t)) = Str(PlusPieces(t, 1))
                 /\ Ok => Cell1[n] = ParseFloat(PlusPieces(t, 1))
                 /\ t = NinePlus => Ok /\ Cell1[n] = Num(99, 1)
                 /\ ~Contains(t, NinePlus) =>
                       /\ _strip_plus(ReadCell(n, t)) = Str(t)
                       /\ Ok => Cell1[n] = ParseFloat(t)

C3_Witness ==
    /\ Ok
    /\ table[1][Col("CA")] = <<"1", "9", "+">>
    /\ Cell1["CA"] = Num(199, 1)

(* C4: for each of SA, SB and SC, a cell that holds a digit and a dot      *)
(* becomes, with the dot replaced by 0, a text a second replacement leaves *)
(* alone, and the returned dataset holds the digit times 10 for it.        *)
C4_DottedStage ==
    Done => \A n \in DotCols :
        LET t == table[1][Col(n)]
        IN  IsDotted(t) =>
              /\ _strip_dots(_strip_dots(Str(t))) = _strip_dots(Str(t))
              /\ Ok
              /\ Cell1[n] = Num(10 * DigitVal(t[1]), 0)

(* The text of a cell after the substitution of its column                 *)
AfterSubstitution(n, t) ==
    IF n \in PlusCols THEN PlusPieces(t, 1)
    ELSE IF n \in DotCols THEN [k \in 1..Len(t) |-> IF t[k] = "." THEN "0" ELSE t[k]]
    ELSE t

(* C7: for each data column, a cell whose text is not a number (the CT     *)
(* of the row being a code of the lookup) is a missing value in the        *)
(* returned dataset, and dex2ds raises nothing.                            *)
C7_Coerce ==
    Done => \A n \in DataCols :
        LET t == table[1][Col(n)]
        IN  ( /\ t # X
              /\ table[1][Col("CT")] \in LookupSet
              /\ ParseFloat(AfterSubstitution(n, t)) = NaN )
            => Ok /\ Cell1[n] = NaN

(* The places of a file name where 8 digits in a row start, and the date   *)
(* 8 digits spell as YYYYMMDD                                              *)
DigitWindows(s) == {k \in 1..(Len(s) - 7) : \A j \in k..(k + 7) : IsDigit(s[j])}

ReadAsDate(s, k) ==
    [year  |-> 1000 * DigitVal(s[k]) + 100 * DigitVal(s[k + 1])
               + 10 * DigitVal(s[k + 2]) + DigitVal(s[k + 3]),
     month |-> 10 * DigitVal(s[k + 4]) + DigitVal(s[k + 5]),
     day   |-> 10 * DigitVal(s[k + 6]) + DigitVal(s[k + 7])]

ValidDate(d) == IsDate(d.year, d.month, d.day)

(* C5 as stated: when the file name holds 8 digits in a row that spell a   *)
(* date, a returned dataset has exactly one time value, that date; when it *)
(* holds no 8 digits in a row dex2ds raises.                               *)
C5_Original ==
    Done =>
      /\ DigitWindows(file_) = {} => result.status = "raised"
      /\ \A k \in DigitWindows(file_) :
            (ValidDate(ReadAsDate(file_, k)) /\ Ok) =>
                result.dataset.time = <<ReadAsDate(file_, k)>>

(* C5 amended: when the file name holds 8 digits in a row, the leftmost 8  *)
(* digits are the ones read as YYYY-MM-DD: a returned dataset has exactly  *)
(* one time value, the date they spell; dex2ds raises when they spell no   *)
(* calendar date, and returns when they spell a date every nanosecond      *)
(* timestamp can hold.  When the name holds no 8 digits in a row dex2ds    *)
(* raises and returns no dataset.                                          *)
C5_LeftmostDate ==
    Done =>
      /\ DigitWindows(file_) = {} => result = Raised("IndexError", "findall")
      /\ DigitWindows(file_) # {} =>
           LET k == CHOOSE j \in DigitWindows(file_) :
                        \A h \in DigitWindows(file_) : j <= h
               d == ReadAsDate(file_, k)
           IN  /\ ~ValidDate(d) => result = Raised("ValueError", "Timestamp")
               /\ Ok => ValidDate(d) /\ result.dataset.time = <<d>>
               /\ (ValidDate(d) /\ d.year \in 1678..2261) => Ok

C5_Witness ==
    /\ Ok
    /\ DigitWindows(file_) = {1, 2}
    /\ ValidDate(ReadAsDate(file_, 2))
    /\ result.dataset.time = <<ReadAsDate(file_, 1)>>
    /\ ReadAsDate(file_, 1) # ReadAsDate(file_, 2)

(* The default output name of an input path: the last path component, cut  *)
(* before its extension (its last dot and what follows, unless only dots   *)
(* come before that dot), with ".nc" put after it                          *)
NoChar(s, c) == \A k \in 1..Len(s) : s[k] # c

IsDefaultName(name, path) ==
    \E b \in 0..Len(path) : \E e \in b..Len(path) :
        LET stem == SubSeq(path, b + 1, e)
            ext  == SubSeq(path, e + 1, Len(path))
        IN  /\ b = 0 \/ path[b] = "/"
            /\ NoChar(stem \o ext, "/")
            /\ \/ /\ ext # <<>>
                  /\ ext[1] = "."
                  /\ NoChar(Tail(ext), ".")
                  /\ \E k \in 1..Len(stem) : stem[k] # "."
               \/ /\ ext = <<>>
                  /\ \A k \in 1..Len(stem) :
                        stem[k] = "." => \A j \in 1..k : stem[j] = "."
            /\ name = stem \o <<".", "n", "c">>

FailsToConvert(name) ==
    \/ disk[name][1][Col("CT")] \notin LookupSet
    \/ DigitWindows(name) = {}

C8_State ==
    /\ \A k \in 1..Len(argv) :
          FailsToConvert(argv[k]) => /\ i < k
                                     /\ Len(written) < k
                                     /\ Len(reads) <= k
    /\ pc = "failed" => /\ result.status = "raised"
                        /\ FailsToConvert(argv[i + 1])
                        /\ reads = SubSeq(argv, 1, i + 1)
                        /\ Len(written) = i
                        /\ ~ENABLED NextCLI

(* C8: when the conversion of input file k fails (its CT code is not one   *)
(* the lookup knows, or its name holds no 8 digits in a row), the run      *)
(* never writes an output for file k and never reads or writes a file      *)
(* after k; the failing step ends the process, nothing can follow it, and  *)
(* it leaves the output files written before as they are.                  *)
C8_FailureStops ==
    /\ []C8_State
    /\ [][(pc = "main" /\ FailsToConvert(argv[i + 1]))
            => (pc' = "failed" /\ fs' = fs /\ written' = written)]_vars

C8_Witness ==
    /\ pc = "failed"
    /\ Len(argv) = 2
    /\ i = 1
    /\ Len(written) = 1
    /\ \E f \in fs : f.name = written[1].name

====
